---- MODULE Spec2Model ----
(***************************************************************************)
(* Session state machine of the study tracker (src/session_manager.py)     *)
(* with its persistence collaborator (src/database.py) and the sampler     *)
(* notifications that reach it (src/activity_monitor.py).                  *)
(*                                                                         *)
(* Time is counted in clock ticks, Tick of them to the second; every       *)
(* time.time() read inside one handler run returns the same tick, because  *)
(* the handler runs under state_lock and takes far less than a tick.       *)
(* Accumulators are kept in ticks, so int(x) of the code is IntTrunc(x)    *)
(* and a productivity is kept in tenths of a percent (round(p, 1) * 10).   *)
(***************************************************************************)
EXTENDS Integers, Sequences, FiniteSets, TLC

\* ---------------------------------------------------------------- bounds
Tick == 1
MaxTime == 4
MaxCalls == 4
MaxSessions == 2
MaxMonTime == 7
MaxMonCalls == 3
MaxInputs == 1
MaxLoops == 2
MaxStatsCalls == 1
MaxKeys == 11

\* ------------------------------------------------------ program constants
idle_threshold_seconds == 3

idle_threshold == idle_threshold_seconds * Tick

\* min(time_since_activity, 1.0): the cap of one second, in ticks
ActiveCap == Tick

\* _wait_for_threads(timeout=5.0)
join_timeout_seconds == 5

\* ------------------------------------------------------------ vocabulary
IDLE == "idle"
ACTIVE == "active"
PAUSED == "paused"
COMPLETED == "completed"

SessionState == {IDLE, ACTIVE, PAUSED, COMPLETED}

\* Python None for a time field or for current_session; clock reads are >= 1
None == -1

Callers == {"c1", "c2"}
Sampler == "s"
Threads == Callers \cup {Sampler}

VARIABLES
    now,                 \* time.time(), in ticks
    session_state,       \* SessionManager.session_state
    current_session,     \* SessionManager.current_session: its id, or None
    session_start_time,
    last_activity_time,
    idle_start_time,
    total_active_time,
    total_idle_time,
    state_history,       \* list of state_change records
    db_sessions,         \* rows of study_sessions inserted by create_session
    db_record,           \* the row written by the last update_session
    pend,                \* per thread: the call it has made and that waits for state_lock
    last,                \* what the call that finished in the last step returned or raised
    observed,            \* state_changed notifications delivered to observers, as <<from, to, operation>>
    recon_steps,         \* reconciliation steps run since the current session started
    calls,               \* calls made so far
    script,              \* position of the scripted scenario (0 when none runs)
    idle_at_pause,       \* total_idle_time as pause_session left it, while PAUSED (else 0)
    \* ActivityMonitor (src/activity_monitor.py)
    permissions_ok,
    fallback_mode,
    listening,           \* an input listener started by _start_input_listeners is running
    is_monitoring,
    is_paused,
    current_session_id,
    idle_state,
    mon_last_activity_time,  \* ActivityMonitor.last_activity_time
    activity_history,
    keypress_times,
    mouse_positions,
    shutdown_event,
    activity_lock,       \* the thread that holds activity_lock, "" when free
    activity_callbacks,
    monitor_thread,      \* the idle-detection thread started last, "" for None
    intensity_thread,    \* the intensity thread started last, "" for None
    loops,               \* idle-detection threads: position and locals of each
    intensity_loops,     \* intensity threads: position of each
    client,              \* the request thread's call into the monitor
    listener,            \* the input listener thread's callback
    idle_calls,          \* update_session_idle_state calls received, as <<is_idle, timestamp>>
    mon_calls,           \* monitor calls made so far
    inputs               \* input events delivered so far

mgrvars == <<session_state, current_session, session_start_time, last_activity_time,
             idle_start_time, total_active_time, total_idle_time, state_history>>

vars == <<now, session_state, current_session, session_start_time, last_activity_time,
          idle_start_time, total_active_time, total_idle_time, state_history,
          db_sessions, db_record, pend, last, observed, recon_steps,
          calls, script, idle_at_pause,
          permissions_ok, fallback_mode, listening, is_monitoring, is_paused,
          current_session_id, idle_state, mon_last_activity_time, activity_history,
          keypress_times, mouse_positions, shutdown_event, activity_lock,
          activity_callbacks, monitor_thread, intensity_thread, loops,
             intensity_loops, client,
          listener, idle_calls, mon_calls, inputs>>

\* The ActivityMonitor's fields and threads
monvars == <<permissions_ok, fallback_mode, listening, is_monitoring, is_paused,
             current_session_id, idle_state, mon_last_activity_time, activity_history,
             keypress_times, mouse_positions, shutdown_event, activity_lock,
             activity_callbacks, monitor_thread, intensity_thread, loops,
             intensity_loops, client,
             listener, idle_calls, mon_calls, inputs>>

\* ------------------------------------------------------------ arithmetic
Min(a, b) == IF a <= b THEN a ELSE b

\* Python truthiness of a time field: None and 0 are false
Truthy(x) == x # None /\ x # 0

\* int(x) for x seconds held in ticks: truncation toward zero
IntTrunc(x) == IF x >= 0 THEN x \div Tick ELSE -((-x) \div Tick)

\* round(a / b * 100, 1) in tenths of a percent, b # 0; ties go to the even tenth
RoundPct(a, b) ==
    LET n == IF b < 0 THEN -a ELSE a
        d == IF b < 0 THEN -b ELSE b
        q == (2000 * n + d) \div (2 * d)
        tie == (2000 * n + d) % (2 * d) = 0
    IN  IF tie /\ q % 2 # 0 THEN q - 1 ELSE q

\* a / b * 100 >= p, b # 0
PctAtLeast(a, b, p) ==
    IF b > 0 THEN 100 * a >= p * b ELSE 100 * a <= p * b

\* ------------------------------------------------------ the manager's state
\* The fields handlers read and write, gathered so that a handler is a function
\* from this record to the record after it and what it returns.
World ==
    [session_state |-> session_state,
     current_session |-> current_session,
     session_start_time |-> session_start_time,
     last_activity_time |-> last_activity_time,
     idle_start_time |-> idle_start_time,
     total_active_time |-> total_active_time,
     total_idle_time |-> total_idle_time,
     state_history |-> state_history,
     db_sessions |-> db_sessions,
     db_record |-> db_record,
     observed |-> observed,
     recon_steps |-> recon_steps]

NoRecord == [session_id |-> None, written |-> FALSE, active_seconds |-> 0, idle_seconds |-> 0,
             total_seconds |-> 0, productivity |-> 0, success |-> FALSE,
             state_history |-> <<>>]

\* What a call gives back: kind "ok" for a return, otherwise the exception raised
NoRet == [kind |-> "none", session_id |-> None, has_stats |-> FALSE, productivity |-> 0,
          active_seconds |-> 0, idle_seconds |-> 0, total_seconds |-> 0,
          total_minutes |-> 0, active_minutes |-> 0, idle_minutes |-> 0,
          level |-> "", state |-> "", success |-> FALSE, intensity |-> 0]

Raise(e) == [NoRet EXCEPT !.kind = e]

\* ----------------------------------------------------- SessionManager helpers
\* _cleanup_session that forgets to clear the history and the accumulators
_cleanup_session_partial(w) ==
    [w EXCEPT !.current_session = None,
              !.session_state = IDLE,
              !.session_start_time = None,
              !.last_activity_time = None,
              !.idle_start_time = None]

\* _cleanup_session that leaves the transitions of the session in state_history
_cleanup_session_keeps_history(w) ==
    [w EXCEPT !.current_session = None,
              !.session_state = IDLE,
              !.session_start_time = None,
              !.last_activity_time = None,
              !.idle_start_time = None,
              !.total_active_time = 0,
              !.total_idle_time = 0]

_cleanup_session(w) ==
    [w EXCEPT !.current_session = None,
              !.session_state = IDLE,
              !.session_start_time = None,
              !.last_activity_time = None,
              !.idle_start_time = None,
              !.total_active_time = 0,
              !.total_idle_time = 0,
              !.state_history = <<>>]

\* The observers add_observer has registered, in the order of the list: one
\* that raises on every event, then one that records the state_changed events
\* it is given (in observed)
session_observers == <<"raises", "records">>

\* _notify_observers with one try around the whole loop: the first observer
\* that raises ends the notification
_notify_observers_until_error(w, data) ==
    LET invoked == {session_observers[i] : i \in
                        {j \in 1..Len(session_observers) :
                            \A k \in 1..(j - 1) : session_observers[k] # "raises"}}
    IN  IF "records" \in invoked THEN [w EXCEPT !.observed = @ \cup {data}] ELSE w

\* for observer in self.session_observers: the call of each is in its own
\* try, so every observer of the list is invoked and nothing is raised
_notify_observers(w, data) ==
    LET invoked == {session_observers[i] : i \in 1..Len(session_observers)}
    IN  IF "records" \in invoked THEN [w EXCEPT !.observed = @ \cup {data}] ELSE w

\* Appends the state_change record and notifies the observers of it
_transition_state(w, new_state, reason, t) ==
    LET state_change ==
            [timestamp |-> t,
             from_state |-> w.session_state,
             to_state |-> new_state,
             reason |-> reason,
             session_time |-> IF Truthy(w.session_start_time)
                              THEN t - w.session_start_time ELSE 0]
    IN  _notify_observers([w EXCEPT !.session_state = new_state,
                                    !.state_history = Append(@, state_change)],
                          <<w.session_state, new_state, reason>>)

\* _update_time_tracking that adds the whole gap since the last activity to total_active_time
_update_time_tracking_uncapped(w, t) ==
    IF ~Truthy(w.session_start_time) THEN w
    ELSE LET r == [w EXCEPT !.recon_steps = @ + 1] IN
    IF w.session_state = ACTIVE THEN
        LET time_since_activity == t - w.last_activity_time IN
        IF time_since_activity >= idle_threshold THEN
            IF w.idle_start_time = None
            THEN [r EXCEPT !.idle_start_time = w.last_activity_time + idle_threshold]
            ELSE r
        ELSE
            LET r1 == IF Truthy(w.idle_start_time)
                      THEN [r EXCEPT !.total_idle_time = @ + (t - w.idle_start_time),
                                     !.idle_start_time = None]
                      ELSE r
            IN  [r1 EXCEPT !.total_active_time = @ + time_since_activity]
    ELSE IF w.session_state = PAUSED THEN
        IF Truthy(w.idle_start_time)
        THEN [r EXCEPT !.total_idle_time = @ + (t - w.idle_start_time)]
        ELSE r
    ELSE r

_update_time_tracking(w, t) ==
    IF ~Truthy(w.session_start_time) THEN w
    ELSE LET r == [w EXCEPT !.recon_steps = @ + 1] IN
    IF w.session_state = ACTIVE THEN
        LET time_since_activity == t - w.last_activity_time IN
        IF time_since_activity >= idle_threshold THEN
            IF w.idle_start_time = None
            THEN [r EXCEPT !.idle_start_time = w.last_activity_time + idle_threshold]
            ELSE r
        ELSE
            LET r1 == IF Truthy(w.idle_start_time)
                      THEN [r EXCEPT !.total_idle_time = @ + (t - w.idle_start_time),
                                     !.idle_start_time = None]
                      ELSE r
            IN  [r1 EXCEPT !.total_active_time = @ + Min(time_since_activity, ActiveCap)]
    ELSE IF w.session_state = PAUSED THEN
        IF Truthy(w.idle_start_time)
        THEN [r EXCEPT !.total_idle_time = @ + (t - w.idle_start_time)]
        ELSE r
    ELSE r

_calculate_final_productivity(w, t) ==
    LET total_time == w.total_active_time + w.total_idle_time IN
    IF total_time = 0 THEN [productivity |-> 0, level |-> "none"]
    ELSE [productivity |-> RoundPct(w.total_active_time, total_time),
          level |-> IF PctAtLeast(w.total_active_time, total_time, 90) THEN "excellent"
                    ELSE IF PctAtLeast(w.total_active_time, total_time, 75) THEN "good"
                    ELSE IF PctAtLeast(w.total_active_time, total_time, 60) THEN "moderate"
                    ELSE IF PctAtLeast(w.total_active_time, total_time, 40) THEN "poor"
                    ELSE "very_poor"]

\* Returns the record after the reconciliation it runs, and the stats
_get_session_stats(w, t) ==
    IF ~Truthy(w.session_start_time) THEN [w |-> w, ret |-> [NoRet EXCEPT !.kind = "ok"]]
    ELSE LET w1 == _update_time_tracking(w, t)
             total_time == t - w1.session_start_time
         IN  [w |-> w1,
              ret |-> [NoRet EXCEPT !.kind = "ok",
                                    !.has_stats = TRUE,
                                    !.total_seconds = IntTrunc(total_time),
                                    !.active_seconds = IntTrunc(w1.total_active_time),
                                    !.idle_seconds = IntTrunc(w1.total_idle_time),
                                    !.productivity = IF total_time > 0
                                                     THEN RoundPct(w1.total_active_time, total_time)
                                                     ELSE 0]]

\* ------------------------------------------------------------ persistence
\* The keys of a state_change dict, in the order _transition_state writes them
StateChangeKeys == <<"timestamp", "from_state", "to_state", "reason", "session_time">>

\* json.dumps of a list of dicts: the text, held as the list of the objects'
\* key/value pairs in the order of the keys
json_dumps(history) ==
    [i \in 1..Len(history) |->
        [k \in 1..Len(StateChangeKeys) |->
            <<StateChangeKeys[k], history[i][StateChangeKeys[k]]>>]]

\* json.loads of such a text: the list of dicts, each with the value of each
\* of its keys
json_loads(text) ==
    [i \in 1..Len(text) |->
        [key \in {text[i][k][1] : k \in 1..Len(text[i])} |->
            text[i][CHOOSE k \in 1..Len(text[i]) : text[i][k][1] = key][2]]]

\* DatabaseManager.get_session of the row update_session wrote: the JSON
\* column state_history is parsed when it holds something
get_session(row) ==
    IF row.state_history # <<>>
    THEN [row EXCEPT !.state_history = json_loads(@)]
    ELSE row

\* ------------------------------------------------- SessionManager operations
\* Each handler runs under state_lock at clock reading t. fault names the
\* persistence call that fails during this run ("none" when all succeed):
\* create_session and log_activity_event raise, update_session catches its
\* own exception and returns False.
Faults == {"none", "create_session", "update_session", "log_activity_event"}

\* start_session without its state check
start_session_unguarded(w, t, fault) ==
    IF fault = "create_session"
    THEN [w |-> _cleanup_session(w), ret |-> Raise("DbError")]
    ELSE LET session_id == w.db_sessions + 1
             w1 == [w EXCEPT !.db_sessions = session_id,
                             !.current_session = session_id,
                             !.session_start_time = t,
                             !.last_activity_time = t,
                             !.total_active_time = 0,
                             !.total_idle_time = 0,
                             !.idle_start_time = None,
                             !.recon_steps = 0]
             w2 == _transition_state(w1, ACTIVE, "Session started", t)
         IN  IF fault = "log_activity_event"
             THEN [w |-> _cleanup_session(w2), ret |-> Raise("DbError")]
             ELSE [w |-> w2, ret |-> [NoRet EXCEPT !.kind = "ok", !.session_id = session_id]]

start_session(w, t, fault) ==
    IF w.session_state # IDLE THEN [w |-> w, ret |-> Raise("ValueError")]
    ELSE IF fault = "create_session"
    THEN [w |-> _cleanup_session(w), ret |-> Raise("DbError")]
    ELSE LET session_id == w.db_sessions + 1
             w1 == [w EXCEPT !.db_sessions = session_id,
                             !.current_session = session_id,
                             !.session_start_time = t,
                             !.last_activity_time = t,
                             !.total_active_time = 0,
                             !.total_idle_time = 0,
                             !.idle_start_time = None,
                             !.recon_steps = 0]
             w2 == _transition_state(w1, ACTIVE, "Session started", t)
         IN  IF fault = "log_activity_event"
             THEN [w |-> _cleanup_session(w2), ret |-> Raise("DbError")]
             ELSE [w |-> w2, ret |-> [NoRet EXCEPT !.kind = "ok", !.session_id = session_id]]

\* pause_session that checks for a live session instead of an ACTIVE one
pause_session_any_live(w, t, reason, fault) ==
    IF w.session_state = IDLE THEN [w |-> w, ret |-> Raise("ValueError")]
    ELSE LET w1 == _update_time_tracking(w, t)
             w2 == [w1 EXCEPT !.idle_start_time = t]
             w3 == _transition_state(w2, PAUSED, reason, t)
         IN  IF fault = "log_activity_event"
             THEN [w |-> w3, ret |-> Raise("DbError")]
             ELSE _get_session_stats(w3, t)

pause_session(w, t, reason, fault) ==
    IF w.session_state # ACTIVE THEN [w |-> w, ret |-> Raise("ValueError")]
    ELSE LET w1 == _update_time_tracking(w, t)
             w2 == [w1 EXCEPT !.idle_start_time = t]
             w3 == _transition_state(w2, PAUSED, reason, t)
         IN  IF fault = "log_activity_event"
             THEN [w |-> w3, ret |-> Raise("DbError")]
             ELSE _get_session_stats(w3, t)

\* resume_session that raises for an illegal state only after resetting the activity clock
resume_session_late_check(w, t, fault) ==
    IF w.session_state # PAUSED
    THEN [w |-> [w EXCEPT !.last_activity_time = t], ret |-> Raise("ValueError")]
    ELSE LET w1 == IF Truthy(w.idle_start_time)
                   THEN [w EXCEPT !.total_idle_time = @ + (t - w.idle_start_time),
                                  !.idle_start_time = None]
                   ELSE w
             w2 == [w1 EXCEPT !.last_activity_time = t]
             w3 == _transition_state(w2, ACTIVE, "Session resumed", t)
         IN  IF fault = "log_activity_event"
             THEN [w |-> w3, ret |-> Raise("DbError")]
             ELSE _get_session_stats(w3, t)

resume_session(w, t, fault) ==
    IF w.session_state # PAUSED THEN [w |-> w, ret |-> Raise("ValueError")]
    ELSE LET w1 == IF Truthy(w.idle_start_time)
                   THEN [w EXCEPT !.total_idle_time = @ + (t - w.idle_start_time),
                                  !.idle_start_time = None]
                   ELSE w
             w2 == [w1 EXCEPT !.last_activity_time = t]
             w3 == _transition_state(w2, ACTIVE, "Session resumed", t)
         IN  IF fault = "log_activity_event"
             THEN [w |-> w3, ret |-> Raise("DbError")]
             ELSE _get_session_stats(w3, t)

\* stop_session whose except branch raises without _cleanup_session
stop_session_raise_uncleaned(w, t, success, fault) ==
    IF w.session_state \notin {ACTIVE, PAUSED} THEN [w |-> w, ret |-> Raise("ValueError")]
    ELSE LET w1 == _update_time_tracking(w, t)
             stats == _calculate_final_productivity(w1, t)
             session_data ==
                 [session_id |-> w1.current_session,
                  written |-> TRUE,
                  active_seconds |-> IntTrunc(w1.total_active_time),
                  idle_seconds |-> IntTrunc(w1.total_idle_time),
                  total_seconds |-> IntTrunc(w1.total_active_time + w1.total_idle_time),
                  productivity |-> stats.productivity,
                  success |-> success,
                  state_history |-> json_dumps(w1.state_history)]
             w2 == IF fault = "update_session" THEN w1
                   ELSE [w1 EXCEPT !.db_record = session_data]
             w3 == _transition_state(w2, COMPLETED, "Session completed", t)
             session_summary ==
                 [NoRet EXCEPT !.kind = "ok",
                               !.has_stats = TRUE,
                               !.session_id = w3.current_session,
                               !.total_minutes = IntTrunc(w3.total_active_time + w3.total_idle_time) \div 60,
                               !.active_minutes = IntTrunc(w3.total_active_time) \div 60,
                               !.idle_minutes = IntTrunc(w3.total_idle_time) \div 60,
                               !.productivity = stats.productivity,
                               !.level = stats.level,
                               !.success = success]
         IN  IF fault = "log_activity_event"
             THEN [w |-> w3, ret |-> Raise("DbError")]
             ELSE [w |-> _cleanup_session(w3), ret |-> session_summary]

stop_session(w, t, success, fault) ==
    IF w.session_state \notin {ACTIVE, PAUSED} THEN [w |-> w, ret |-> Raise("ValueError")]
    ELSE LET w1 == _update_time_tracking(w, t)
             stats == _calculate_final_productivity(w1, t)
             session_data ==
                 [session_id |-> w1.current_session,
                  written |-> TRUE,
                  active_seconds |-> IntTrunc(w1.total_active_time),
                  idle_seconds |-> IntTrunc(w1.total_idle_time),
                  total_seconds |-> IntTrunc(w1.total_active_time + w1.total_idle_time),
                  productivity |-> stats.productivity,
                  success |-> success,
                  state_history |-> json_dumps(w1.state_history)]
             w2 == IF fault = "update_session" THEN w1
                   ELSE [w1 EXCEPT !.db_record = session_data]
             w3 == _transition_state(w2, COMPLETED, "Session completed", t)
             session_summary ==
                 [NoRet EXCEPT !.kind = "ok",
                               !.has_stats = TRUE,
                               !.session_id = w3.current_session,
                               !.total_minutes = IntTrunc(w3.total_active_time + w3.total_idle_time) \div 60,
                               !.active_minutes = IntTrunc(w3.total_active_time) \div 60,
                               !.idle_minutes = IntTrunc(w3.total_idle_time) \div 60,
                               !.productivity = stats.productivity,
                               !.level = stats.level,
                               !.success = success]
         IN  IF fault = "log_activity_event"
             THEN [w |-> _cleanup_session(w3), ret |-> Raise("DbError")]
             ELSE [w |-> _cleanup_session(w3), ret |-> session_summary]

get_current_status(w, t) ==
    IF w.current_session = None \/ w.session_state = IDLE
    THEN [w |-> w, ret |-> [NoRet EXCEPT !.kind = "ok", !.has_stats = TRUE, !.state = IDLE]]
    ELSE LET w1 == _update_time_tracking(w, t)
             total_elapsed == t - w1.session_start_time
         IN  [w |-> w1,
              ret |-> [NoRet EXCEPT !.kind = "ok",
                                    !.has_stats = TRUE,
                                    !.state = w1.session_state,
                                    !.session_id = w1.current_session,
                                    !.total_seconds = IntTrunc(total_elapsed),
                                    !.active_seconds = IntTrunc(w1.total_active_time),
                                    !.idle_seconds = IntTrunc(w1.total_idle_time),
                                    !.productivity = IF total_elapsed > 0
                                                     THEN RoundPct(w1.total_active_time, total_elapsed)
                                                     ELSE 0]]

\* update_session_activity that only checks that a session exists
update_session_activity_any_live(w, t, ts, fault) ==
    IF w.current_session = None
    THEN [w |-> w, ret |-> [NoRet EXCEPT !.kind = "ok"]]
    ELSE LET w1 == [w EXCEPT !.last_activity_time = ts] IN
         IF fault = "log_activity_event"
         THEN [w |-> w1, ret |-> Raise("DbError")]
         ELSE [w |-> w1, ret |-> [NoRet EXCEPT !.kind = "ok"]]

\* activity_data always carries "timestamp" (ActivityEvent.to_dict), here ts
update_session_activity(w, t, ts, fault) ==
    IF w.current_session = None \/ w.session_state # ACTIVE
    THEN [w |-> w, ret |-> [NoRet EXCEPT !.kind = "ok"]]
    ELSE LET w1 == [w EXCEPT !.last_activity_time = ts] IN
         IF fault = "log_activity_event"
         THEN [w |-> w1, ret |-> Raise("DbError")]
         ELSE [w |-> w1, ret |-> [NoRet EXCEPT !.kind = "ok"]]

\* update_session_idle_state that restarts an idle span that is already open
update_session_idle_state_reopen(w, is_idle, timestamp) ==
    IF w.current_session = None \/ w.session_state # ACTIVE
    THEN [w |-> w, ret |-> [NoRet EXCEPT !.kind = "ok"]]
    ELSE LET w1 == IF is_idle
                   THEN [w EXCEPT !.idle_start_time = timestamp]
                   ELSE IF Truthy(w.idle_start_time)
                        THEN [w EXCEPT !.total_idle_time = @ + (timestamp - w.idle_start_time),
                                       !.idle_start_time = None]
                        ELSE w
         IN  [w |-> [w1 EXCEPT !.last_activity_time = timestamp],
              ret |-> [NoRet EXCEPT !.kind = "ok"]]

update_session_idle_state(w, is_idle, timestamp) ==
    IF w.current_session = None \/ w.session_state # ACTIVE
    THEN [w |-> w, ret |-> [NoRet EXCEPT !.kind = "ok"]]
    ELSE LET w1 == IF is_idle
                   THEN IF ~Truthy(w.idle_start_time)
                        THEN [w EXCEPT !.idle_start_time = timestamp] ELSE w
                   ELSE IF Truthy(w.idle_start_time)
                        THEN [w EXCEPT !.total_idle_time = @ + (timestamp - w.idle_start_time),
                                       !.idle_start_time = None]
                        ELSE w
         IN  [w |-> [w1 EXCEPT !.last_activity_time = timestamp],
              ret |-> [NoRet EXCEPT !.kind = "ok"]]

\* get_sessions(limit=5) returns at most 5 of the rows; topic_ok says that the
\* topic passed is non-empty and at most 200 characters long. Reads
\* session_state without taking state_lock and writes nothing.
validate_session_operation(w, operation, topic_ok) ==
    LET recent_sessions == Min(w.db_sessions, 5)
        errors ==
            IF operation = "start"
            THEN (IF ~topic_ok THEN {"Topic is required"} ELSE {})
                 \cup (IF recent_sessions >= 50
                       THEN {"Too many sessions started recently"} ELSE {})
            ELSE IF operation = "pause"
            THEN IF w.session_state # ACTIVE THEN {"No active session to pause"} ELSE {}
            ELSE IF operation = "resume"
            THEN IF w.session_state # PAUSED THEN {"No paused session to resume"} ELSE {}
            ELSE IF operation = "stop"
            THEN IF w.session_state \notin {ACTIVE, PAUSED}
                 THEN {"No active session to stop"} ELSE {}
            ELSE {}
    IN  [valid |-> errors = {}, errors |-> errors]

\* ------------------------------------------------- the ActivityMonitor's state
KEYBOARD == "keyboard"
MOUSE == "mouse"
IDLE_EVENT == "idle"

\* idle is details["idle_state"] of an Idle event, FALSE for the other kinds
ActivityEvent(timestamp, activity_type, idle) ==
    [timestamp |-> timestamp, activity_type |-> activity_type, idle_state |-> idle]

\* Thread names: the request thread, the input listener thread, and the
\* idle-detection / intensity thread pairs start_monitoring starts in turn
App == "app"
Listener == "listener"
LoopNames == <<"loop1", "loop2", "loop3", "loop4">>
LoopIds == {LoopNames[i] : i \in 1..MaxLoops}
IntensityNames == <<"intensity1", "intensity2", "intensity3", "intensity4">>
IntensityIds == {IntensityNames[i] : i \in 1..MaxLoops}

\* A thread that was never started. An idle-detection thread keeps
\* currently_idle and current_time between its steps.
NoLoop == [pc |-> "none", currently_idle |-> FALSE, current_time |-> None]

NoClient == [op |-> "none", pc |-> "", join_start |-> None]

NoInput == [pc |-> "none", kind |-> "", timestamp |-> None]

\* Observers a client may register with add_activity_callback: one that
\* reads its event and raises, and one that calls get_current_stats
ActivityCallbacks == {"raise_error", "get_current_stats"}

InitMonitor ==
    /\ permissions_ok \in BOOLEAN
    /\ fallback_mode = FALSE
    /\ listening = FALSE
    /\ is_monitoring = FALSE
    /\ is_paused = FALSE
    /\ current_session_id = None
    /\ idle_state = FALSE
    /\ mon_last_activity_time = 1
    /\ activity_history = <<>>
    /\ keypress_times = <<>>
    /\ mouse_positions = <<>>
    /\ shutdown_event = FALSE
    /\ activity_lock = ""
    /\ activity_callbacks = {}
    /\ monitor_thread = ""
    /\ intensity_thread = ""
    /\ loops = [l \in LoopIds |-> NoLoop]
    /\ intensity_loops = [l \in IntensityIds |-> "none"]
    /\ client = NoClient
    /\ listener = NoInput
    /\ idle_calls = <<>>
    /\ mon_calls = 0
    /\ inputs = 0

\* ------------------------------------------------------------------ calls
\* A call a thread has made: its arguments and the clock reading it took
\* before the call (the sampler's notifications carry it).
NoCall == [op |-> "none", ts |-> None, is_idle |-> FALSE, success |-> FALSE,
           reason |-> ""]

CallerOps == {"start_session", "pause_session", "resume_session", "stop_session",
              "get_current_status"}

NoLast == [thread |-> "", op |-> "none", fault |-> "none", ret |-> NoRet]

InitManager ==
    /\ now = 1
    /\ session_state = IDLE
    /\ current_session = None
    /\ session_start_time = None
    /\ last_activity_time = None
    /\ idle_start_time = None
    /\ total_active_time = 0
    /\ total_idle_time = 0
    /\ state_history = <<>>
    /\ db_sessions = 0
    /\ db_record = NoRecord
    /\ pend = [t \in Threads |-> NoCall]
    /\ last = NoLast
    /\ observed = {}
    /\ recon_steps = 0
    /\ calls = 0
    /\ idle_at_pause = 0

Init == InitManager /\ InitMonitor /\ permissions_ok /\ script = 0

\* The handler's outcome out = [w, ret] becomes the next state
Commit(out) ==
    /\ session_state' = out.w.session_state
    /\ current_session' = out.w.current_session
    /\ session_start_time' = out.w.session_start_time
    /\ last_activity_time' = out.w.last_activity_time
    /\ idle_start_time' = out.w.idle_start_time
    /\ total_active_time' = out.w.total_active_time
    /\ total_idle_time' = out.w.total_idle_time
    /\ state_history' = out.w.state_history
    /\ db_sessions' = out.w.db_sessions
    /\ db_record' = out.w.db_record
    /\ observed' = out.w.observed
    /\ recon_steps' = out.w.recon_steps
    /\ idle_at_pause' = IF out.w.session_state # PAUSED THEN 0
                        ELSE IF session_state = PAUSED THEN idle_at_pause
                        ELSE out.w.total_idle_time

\* The call of thread t is over
Finish(t, out, fault) ==
    /\ Commit(out)
    /\ last' = [thread |-> t, op |-> pend[t].op, fault |-> fault, ret |-> out.ret]
    /\ pend' = [pend EXCEPT ![t] = NoCall]
    /\ UNCHANGED <<now, calls, script, monvars>>

\* time.time() advances
Tock ==
    /\ now < MaxTime
    /\ now' = now + 1
    /\ last' = NoLast
    /\ UNCHANGED <<mgrvars, db_sessions, db_record, pend, observed,
                   recon_steps, calls, script, idle_at_pause, monvars>>

\* A request handler thread calls one of the public operations (src/app.py).
\* Handler threads are interchangeable: the second one is taken only while the
\* first is waiting.
Invoke(t) ==
    /\ script = 0
    /\ pend[t] = NoCall
    /\ t = "c1" \/ pend["c1"] # NoCall
    /\ calls < MaxCalls
    /\ \E op \in CallerOps, success \in BOOLEAN :
        /\ op = "start_session" => db_sessions < MaxSessions
        /\ op # "stop_session" => success
        /\ pend' = [pend EXCEPT ![t] =
                        [NoCall EXCEPT !.op = op, !.success = success,
                                       !.reason = IF op = "pause_session" THEN "manual_pause" ELSE ""]]
    /\ calls' = calls + 1
    /\ last' = NoLast
    /\ UNCHANGED <<now, mgrvars, db_sessions, db_record, observed,
                   recon_steps, script, idle_at_pause, monvars>>

\* The idle-detection loop sees idle_state flip to is_idle at clock reading
\* now and goes on to notify the session manager with that reading. The
\* sampler runs for a session: the request handler starts it after
\* start_session and stops it after stop_session.
NotifyIdle ==
    /\ script = 0
    /\ pend[Sampler] = NoCall
    /\ calls < MaxCalls
    /\ current_session # None
    /\ \E is_idle \in BOOLEAN :
        pend' = [pend EXCEPT ![Sampler] =
                    [NoCall EXCEPT !.op = "update_session_idle_state", !.ts = now,
                                   !.is_idle = is_idle]]
    /\ calls' = calls + 1
    /\ last' = NoLast
    /\ UNCHANGED <<now, mgrvars, db_sessions, db_record, observed, recon_steps, script,
                   idle_at_pause, monvars>>

\* _record_activity_event hands an event stamped now to the session manager
NotifyActivity ==
    /\ script = 0
    /\ pend[Sampler] = NoCall
    /\ calls < MaxCalls
    /\ current_session # None
    /\ pend' = [pend EXCEPT ![Sampler] =
                    [NoCall EXCEPT !.op = "update_session_activity", !.ts = now]]
    /\ calls' = calls + 1
    /\ last' = NoLast
    /\ UNCHANGED <<now, mgrvars, db_sessions, db_record, observed,
                   recon_steps, script, idle_at_pause, monvars>>

\* The pending call of thread t gets state_lock and runs to its end
StartSession(t) ==
    /\ pend[t].op = "start_session"
    /\ \E fault \in {"none", "create_session", "log_activity_event"} :
        Finish(t, start_session(World, now, fault), fault)

PauseSession(t) ==
    /\ pend[t].op = "pause_session"
    /\ \E fault \in {"none", "log_activity_event"} :
        Finish(t, pause_session(World, now, pend[t].reason, fault), fault)

ResumeSession(t) ==
    /\ pend[t].op = "resume_session"
    /\ \E fault \in {"none", "log_activity_event"} :
        Finish(t, resume_session(World, now, fault), fault)

StopSession(t) ==
    /\ pend[t].op = "stop_session"
    /\ \E fault \in {"none", "update_session", "log_activity_event"} :
        Finish(t, stop_session(World, now, pend[t].success, fault), fault)

GetCurrentStatus(t) ==
    /\ pend[t].op = "get_current_status"
    /\ Finish(t, get_current_status(World, now), "none")

UpdateSessionActivity(t) ==
    /\ pend[t].op = "update_session_activity"
    /\ \E fault \in {"none", "log_activity_event"} :
        Finish(t, update_session_activity(World, now, pend[t].ts, fault), fault)

UpdateSessionIdleState(t) ==
    /\ pend[t].op = "update_session_idle_state"
    /\ Finish(t, update_session_idle_state(World, pend[t].is_idle, pend[t].ts), "none")

Next ==
    \/ Tock
    \/ \E t \in Callers : Invoke(t)
    \/ NotifyIdle
    \/ NotifyActivity
    \/ \E t \in Callers : StartSession(t)
    \/ \E t \in Callers : PauseSession(t)
    \/ \E t \in Callers : ResumeSession(t)
    \/ \E t \in Callers : StopSession(t)
    \/ \E t \in Callers : GetCurrentStatus(t)
    \/ UpdateSessionActivity(Sampler)
    \/ UpdateSessionIdleState(Sampler)

Spec == Init /\ [][Next]_vars

\* ------------------------------------------------------ scripted scenario
\* start_session("math"), 2 seconds in which the sampler reports activity,
\* pause_session, 3 seconds, resume_session, 2 seconds of activity,
\* stop_session(success=True). One request thread makes the calls, each at its
\* time, and may read the status in between; script is the position: 1 before the start, 2 active, 3 paused,
\* 4 active again, 5 stopped.
ScenarioInit == InitManager /\ InitMonitor /\ permissions_ok /\ script = 1

ScriptDue ==
    CASE script = 2 -> 1 + 2 * Tick
      [] script = 3 -> 1 + 5 * Tick
      [] script = 4 -> 1 + 7 * Tick
      [] OTHER -> 1

ScriptStep(op, out) ==
    /\ Commit(out)
    /\ last' = [thread |-> "c1", op |-> op, fault |-> "none", ret |-> out.ret]
    /\ script' = script + 1
    /\ UNCHANGED <<now, pend, calls, monvars>>

ScriptWait ==
    /\ script \in 2..4
    /\ now < ScriptDue
    /\ now' = now + 1
    /\ last' = NoLast
    /\ UNCHANGED <<mgrvars, db_sessions, db_record, pend, observed, recon_steps,
                   calls, script, idle_at_pause, monvars>>

\* Simulated activity: the sampler records an input event stamped now
ScriptActivity ==
    /\ script \in {2, 4}
    /\ Commit(update_session_activity(World, now, now, "none"))
    /\ last' = [thread |-> Sampler, op |-> "update_session_activity",
                fault |-> "none", ret |-> [NoRet EXCEPT !.kind = "ok"]]
    /\ UNCHANGED <<now, pend, calls, script, monvars>>

\* The page polls the status while the session lives
ScriptPoll ==
    /\ script \in 2..4
    /\ calls < MaxCalls
    /\ Commit(get_current_status(World, now))
    /\ last' = [thread |-> "c1", op |-> "get_current_status", fault |-> "none",
                ret |-> get_current_status(World, now).ret]
    /\ calls' = calls + 1
    /\ UNCHANGED <<now, pend, script, monvars>>

ScriptStart ==
    /\ script = 1
    /\ ScriptStep("start_session", start_session(World, now, "none"))

ScriptPause ==
    /\ script = 2
    /\ now = ScriptDue
    /\ ScriptStep("pause_session", pause_session(World, now, "manual_pause", "none"))

ScriptResume ==
    /\ script = 3
    /\ now = ScriptDue
    /\ ScriptStep("resume_session", resume_session(World, now, "none"))

ScriptStop ==
    /\ script = 4
    /\ now = ScriptDue
    /\ ScriptStep("stop_session", stop_session(World, now, TRUE, "none"))

ScenarioNext ==
    \/ ScriptWait
    \/ ScriptActivity
    \/ ScriptPoll
    \/ ScriptStart
    \/ ScriptPause
    \/ ScriptResume
    \/ ScriptStop

SpecScenario == ScenarioInit /\ [][ScenarioNext]_vars

\* ------------------------------------------------------ the activity monitor
\* The sampler with its threads: the request thread that calls its public
\* operations one at a time, the input listener thread, and the
\* idle-detection and intensity threads. A step is what a thread does between
\* two points at which another thread can run: a block under activity_lock, a
\* call into the session manager (under state_lock), or unlocked reads and
\* writes made together.
sessvars == <<mgrvars, db_sessions, db_record, observed, recon_steps, idle_at_pause>>

flagvars == <<permissions_ok, fallback_mode, listening, is_monitoring, is_paused,
              current_session_id, shutdown_event>>

bufvars == <<activity_history, keypress_times, mouse_positions>>

threadvars == <<monitor_thread, intensity_thread, loops, intensity_loops>>

join_timeout == join_timeout_seconds * Tick

\* deque(maxlen=maxlen).append(x)
DequeAppend(q, x, maxlen) ==
    IF Len(q) >= maxlen THEN Append(Tail(q), x) ELSE Append(q, x)

Started == {l \in LoopIds : loops[l].pc # "none"}

is_alive(pc) == pc \notin {"none", "done"}

\* What the client's call returned
Returned(op, value) ==
    last' = [thread |-> App, op |-> op, fault |-> "none",
             ret |-> [NoRet EXCEPT !.kind = "ok", !.success = value]]

\* _calculate_current_stats reads the session manager's status
_calculate_current_stats(w) == get_current_status(w, now)

\* The block of _record_activity_event under activity_lock up to the
\* callbacks: the manager after update_session_activity, and whether
\* log_activity_event (the manager's or the monitor's) raised out of the block
_record_activity_event(w, event, fault) ==
    LET out == update_session_activity(w, now, event.timestamp, fault) IN
    [w |-> out.w,
     ret |-> out.ret,
     raised |-> \/ out.ret.kind # "ok"
                \/ fault = "log_activity_event" /\ current_session_id # None]

MonitorInit == InitManager /\ InitMonitor /\ script = 0

\* The clock reading at which the first session starts is immaterial: it is 1
MonTock ==
    /\ current_session # None
    /\ now < MaxMonTime
    /\ now' = now + 1
    /\ last' = NoLast
    /\ UNCHANGED <<sessvars, pend, calls, script, monvars>>

\* start_monitoring(session_id), called by the request thread
start_monitoring(session_id) ==
    /\ mon_calls' = mon_calls + 1
    /\ IF ~permissions_ok
       THEN /\ Returned("start_monitoring", FALSE)
            /\ UNCHANGED <<flagvars, bufvars, threadvars, idle_state,
                           mon_last_activity_time>>
       ELSE /\ activity_lock = ""
            /\ IF is_monitoring
               THEN /\ Returned("start_monitoring", TRUE)
                    /\ UNCHANGED <<flagvars, bufvars, threadvars, idle_state,
                                   mon_last_activity_time>>
               ELSE /\ Cardinality(Started) < MaxLoops
                    /\ LET thread == LoopNames[Cardinality(Started) + 1] IN
                        /\ current_session_id' = session_id
                        /\ mon_last_activity_time' = now
                        /\ idle_state' = FALSE
                        /\ is_monitoring' = TRUE
                        /\ is_paused' = FALSE
                        /\ activity_history' = <<>>
                        /\ keypress_times' = <<>>
                        /\ mouse_positions' = <<>>
                        /\ shutdown_event' = FALSE
                        /\ \E listeners \in {"started", "none", "exception"} :
                            /\ listening' = (listeners = "started")
                            /\ fallback_mode' = (listeners = "exception")
                        /\ monitor_thread' = thread
                        /\ intensity_thread' = IntensityNames[Cardinality(Started) + 1]
                        /\ loops' = [loops EXCEPT ![thread] = [NoLoop EXCEPT !.pc = "check"]]
                        /\ intensity_loops' =
                               [intensity_loops EXCEPT
                                    ![IntensityNames[Cardinality(Started) + 1]] = "run"]
                        /\ Returned("start_monitoring", TRUE)
                        /\ UNCHANGED permissions_ok
    /\ UNCHANGED <<now, pend, calls, script, activity_lock, activity_callbacks,
                   client, listener, idle_calls, inputs>>

\* The start_session request handler: session_manager.start_session, then
\* activity_monitor.start_monitoring with the id it returned. No monitor
\* thread can run between the two when the monitor is not running.
StartSessionRequest ==
    /\ client = NoClient
    /\ mon_calls < MaxMonCalls
    /\ session_state = IDLE
    /\ db_sessions < MaxSessions
    /\ ~is_monitoring
    /\ Commit(start_session(World, now, "none"))
    /\ start_monitoring(db_sessions + 1)

\* start_monitoring called again for the session that exists
StartMonitoring ==
    /\ client = NoClient
    /\ mon_calls < MaxMonCalls
    /\ current_session # None
    /\ start_monitoring(current_session)
    /\ UNCHANGED sessvars

PauseMonitoring ==
    /\ client = NoClient
    /\ mon_calls < MaxMonCalls
    /\ mon_calls' = mon_calls + 1
    /\ IF ~is_monitoring
       THEN /\ Returned("pause_monitoring", FALSE)
            /\ UNCHANGED is_paused
       ELSE /\ activity_lock = ""
            /\ is_paused' = TRUE
            /\ Returned("pause_monitoring", TRUE)
    /\ UNCHANGED <<now, sessvars, pend, calls, script, permissions_ok, fallback_mode,
                   listening, is_monitoring, current_session_id, shutdown_event, bufvars,
                   threadvars, idle_state, mon_last_activity_time, activity_lock,
                   activity_callbacks, client, listener, idle_calls, inputs>>

ResumeMonitoring ==
    /\ client = NoClient
    /\ mon_calls < MaxMonCalls
    /\ mon_calls' = mon_calls + 1
    /\ IF ~is_monitoring \/ ~is_paused
       THEN /\ Returned("resume_monitoring", FALSE)
            /\ UNCHANGED <<is_paused, mon_last_activity_time>>
       ELSE /\ activity_lock = ""
            /\ is_paused' = FALSE
            /\ mon_last_activity_time' = now
            /\ Returned("resume_monitoring", TRUE)
    /\ UNCHANGED <<now, sessvars, pend, calls, script, permissions_ok, fallback_mode,
                   listening, is_monitoring, current_session_id, shutdown_event, bufvars,
                   threadvars, idle_state, activity_lock, activity_callbacks, client,
                   listener, idle_calls, inputs>>

AddActivityCallback ==
    /\ client = NoClient
    /\ mon_calls < MaxMonCalls
    /\ mon_calls' = mon_calls + 1
    /\ \E callback \in ActivityCallbacks \ activity_callbacks :
        activity_callbacks' = activity_callbacks \cup {callback}
    /\ last' = NoLast
    /\ UNCHANGED <<now, sessvars, pend, calls, script, flagvars, bufvars, threadvars,
                   idle_state, mon_last_activity_time, activity_lock, client, listener,
                   idle_calls, inputs>>

\* The request thread calls stop_monitoring, which first waits for activity_lock
StopMonitoringCall ==
    /\ client = NoClient
    /\ mon_calls < MaxMonCalls
    /\ mon_calls' = mon_calls + 1
    /\ client' = [NoClient EXCEPT !.op = "stop_monitoring", !.pc = "lock"]
    /\ last' = NoLast
    /\ UNCHANGED <<now, sessvars, pend, calls, script, flagvars, bufvars, threadvars,
                   idle_state, mon_last_activity_time, activity_lock, activity_callbacks,
                   listener, idle_calls, inputs>>

\* stop_monitoring takes activity_lock and keeps it until it returns
StopMonitoring ==
    /\ client.pc = "lock"
    /\ activity_lock = ""
    /\ IF ~is_monitoring
       THEN /\ Returned("stop_monitoring", TRUE)
            /\ client' = NoClient
            /\ UNCHANGED <<is_monitoring, shutdown_event, listening, activity_lock>>
       ELSE /\ is_monitoring' = FALSE
            /\ shutdown_event' = TRUE
            /\ listening' = FALSE
            /\ activity_lock' = App
            /\ client' = [op |-> "stop_monitoring", pc |-> "join_monitor", join_start |-> now]
            /\ last' = NoLast
    /\ UNCHANGED <<now, sessvars, pend, calls, script, permissions_ok, fallback_mode,
                   is_paused, current_session_id, bufvars, threadvars, idle_state,
                   mon_last_activity_time, activity_callbacks, listener, idle_calls,
                   mon_calls, inputs>>

\* monitor_thread.join(timeout): the thread has ended, or the timeout has passed
JoinMonitorThread ==
    /\ client.pc = "join_monitor"
    /\ \/ monitor_thread = ""
       \/ monitor_thread # "" /\ ~is_alive(loops[monitor_thread].pc)
       \/ now >= client.join_start + join_timeout
    /\ client' = [client EXCEPT !.pc = "join_intensity", !.join_start = now]
    /\ last' = NoLast
    /\ UNCHANGED <<now, sessvars, pend, calls, script, flagvars, bufvars, threadvars,
                   idle_state, mon_last_activity_time, activity_lock, activity_callbacks,
                   listener, idle_calls, mon_calls, inputs>>

JoinIntensityThread ==
    /\ client.pc = "join_intensity"
    /\ \/ intensity_thread = ""
       \/ intensity_thread # "" /\ ~is_alive(intensity_loops[intensity_thread])
       \/ now >= client.join_start + join_timeout
    /\ client' = [client EXCEPT !.pc = "finish"]
    /\ last' = NoLast
    /\ UNCHANGED <<now, sessvars, pend, calls, script, flagvars, bufvars, threadvars,
                   idle_state, mon_last_activity_time, activity_lock, activity_callbacks,
                   listener, idle_calls, mon_calls, inputs>>

\* The final stats, _cleanup, and the release of activity_lock
StopMonitoringEnd ==
    /\ client.pc = "finish"
    /\ Commit(_calculate_current_stats(World))
    /\ current_session_id' = None
    /\ is_monitoring' = FALSE
    /\ is_paused' = FALSE
    /\ activity_history' = <<>>
    /\ keypress_times' = <<>>
    /\ mouse_positions' = <<>>
    /\ activity_lock' = ""
    /\ client' = NoClient
    /\ Returned("stop_monitoring", TRUE)
    /\ UNCHANGED <<now, pend, calls, script, permissions_ok, fallback_mode, listening,
                   shutdown_event, threadvars, idle_state, mon_last_activity_time,
                   activity_callbacks, listener, idle_calls, mon_calls, inputs>>

\* on_key_press / on_mouse_move / on_mouse_click: the unlocked test of
\* is_monitoring and is_paused
InputArrives ==
    /\ listening
    /\ listener = NoInput
    /\ inputs < MaxInputs
    /\ inputs' = inputs + 1
    /\ \E kind \in {KEYBOARD, MOUSE} :
        listener' = IF ~is_monitoring \/ is_paused THEN NoInput
                    ELSE [NoInput EXCEPT !.pc = "activity", !.kind = kind]
    /\ last' = NoLast
    /\ UNCHANGED <<now, sessvars, pend, calls, script, flagvars, bufvars, threadvars,
                   idle_state, mon_last_activity_time, activity_lock, activity_callbacks,
                   client, idle_calls, mon_calls>>

\* _on_keyboard_activity / _on_mouse_activity up to _record_activity_event
OnInputActivity ==
    /\ listener.pc = "activity"
    /\ mon_last_activity_time' = now
    /\ IF listener.kind = KEYBOARD
       THEN /\ keypress_times' = DequeAppend(keypress_times, now, 10)
            /\ UNCHANGED mouse_positions
       ELSE /\ mouse_positions' = DequeAppend(mouse_positions, now, 5)
            /\ UNCHANGED keypress_times
    /\ listener' = [listener EXCEPT !.pc = "record", !.timestamp = now]
    /\ last' = NoLast
    /\ UNCHANGED <<now, sessvars, pend, calls, script, flagvars, activity_history,
                   threadvars, idle_state, activity_lock, activity_callbacks, client,
                   idle_calls, mon_calls, inputs>>

\* _record_activity_event(event) by the listener thread: with callbacks
\* registered the thread goes on to call them, still inside the with block
InputRecord ==
    /\ listener.pc = "record"
    /\ activity_lock = ""
    /\ \E fault \in {"none", "log_activity_event"} :
        LET event == ActivityEvent(listener.timestamp, listener.kind, FALSE)
            rec == _record_activity_event(World, event, fault)
        IN  /\ Commit(rec)
            /\ activity_history' = DequeAppend(activity_history, event, 1000)
            /\ IF rec.raised \/ activity_callbacks = {}
               THEN listener' = NoInput /\ UNCHANGED activity_lock
               ELSE /\ listener' = [listener EXCEPT !.pc = "callbacks"]
                    /\ activity_lock' = Listener
    /\ last' = NoLast
    /\ UNCHANGED <<now, pend, calls, script, flagvars, keypress_times, mouse_positions,
                   threadvars, idle_state, mon_last_activity_time, activity_callbacks,
                   client, idle_calls, mon_calls, inputs>>

\* One pass of the while loop of _idle_detection_loop up to
\* _record_activity_event, after shutdown_event.wait returned
IdleDetection(l) ==
    /\ loops[l].pc = "check"
    /\ IF shutdown_event
       THEN /\ loops' = [loops EXCEPT ![l] = [NoLoop EXCEPT !.pc = "done"]]
            /\ UNCHANGED idle_state
       ELSE LET currently_idle == now - mon_last_activity_time >= idle_threshold IN
            IF is_monitoring /\ ~is_paused /\ idle_state # currently_idle
            THEN /\ idle_state' = currently_idle
                 /\ loops' = [loops EXCEPT ![l] = [pc |-> "record",
                                                   currently_idle |-> currently_idle,
                                                   current_time |-> now]]
            ELSE UNCHANGED <<idle_state, loops>>
    /\ last' = NoLast
    /\ UNCHANGED <<now, sessvars, pend, calls, script, flagvars, bufvars, monitor_thread,
                   intensity_thread, intensity_loops, mon_last_activity_time, activity_lock,
                   activity_callbacks, client, listener, idle_calls, mon_calls, inputs>>

\* _record_activity_event(event) by an idle-detection thread; an exception
\* out of it is caught by the loop, which starts its next pass
IdleRecord(l) ==
    /\ loops[l].pc = "record"
    /\ activity_lock = ""
    /\ \E fault \in {"none", "log_activity_event"} :
        LET event == ActivityEvent(loops[l].current_time, IDLE_EVENT, loops[l].currently_idle)
            rec == _record_activity_event(World, event, fault)
        IN  /\ Commit(rec)
            /\ activity_history' = DequeAppend(activity_history, event, 1000)
            /\ IF rec.raised
               THEN /\ loops' = [loops EXCEPT ![l] = [NoLoop EXCEPT !.pc = "check"]]
                    /\ UNCHANGED activity_lock
               ELSE IF activity_callbacks = {}
               THEN /\ loops' = [loops EXCEPT ![l].pc = "notify"]
                    /\ UNCHANGED activity_lock
               ELSE /\ loops' = [loops EXCEPT ![l].pc = "callbacks"]
                    /\ activity_lock' = l
    /\ last' = NoLast
    /\ UNCHANGED <<now, pend, calls, script, flagvars, keypress_times, mouse_positions,
                   monitor_thread, intensity_thread, intensity_loops, idle_state,
                   mon_last_activity_time,
                   activity_callbacks, client, listener, idle_calls, mon_calls, inputs>>

\* session_manager.update_session_idle_state(currently_idle, current_time)
IdleNotify(l) ==
    /\ loops[l].pc = "notify"
    /\ Commit(update_session_idle_state(World, loops[l].currently_idle, loops[l].current_time))
    /\ idle_calls' = Append(idle_calls, <<loops[l].currently_idle, loops[l].current_time>>)
    /\ loops' = [loops EXCEPT ![l] = [NoLoop EXCEPT !.pc = "check"]]
    /\ last' = NoLast
    /\ UNCHANGED <<now, pend, calls, script, flagvars, bufvars, monitor_thread,
                   intensity_thread, intensity_loops, idle_state, mon_last_activity_time, activity_lock,
                   activity_callbacks, client, listener, mon_calls, inputs>>

PcOf(thread) ==
    IF thread = Listener THEN listener.pc
    ELSE IF thread \in LoopIds THEN loops[thread].pc
    ELSE intensity_loops[thread]

\* thread moves to position pc
Goto(thread, pc) ==
    /\ listener' = IF thread # Listener THEN listener
                   ELSE IF pc = "none" THEN NoInput ELSE [listener EXCEPT !.pc = pc]
    /\ loops' = IF thread \in LoopIds THEN [loops EXCEPT ![thread].pc = pc] ELSE loops
    /\ intensity_loops' = IF thread \in IntensityIds
                          THEN [intensity_loops EXCEPT ![thread] = pc]
                          ELSE intensity_loops

\* Where a thread goes on when the callbacks it called have returned
AfterCallbacks(thread) ==
    IF thread = Listener THEN "none"
    ELSE IF thread \in LoopIds THEN "notify"
    ELSE "run"

\* The callbacks of _record_activity_event run in the recording thread, inside
\* the with block, each in its own try: what one raises is caught and the
\* next is called. One that calls get_current_stats reaches that method's
\* "with self.activity_lock"; the others return or raise, and the block ends.
ActivityCallbacksRun(thread) ==
    /\ PcOf(thread) = "callbacks"
    /\ IF "get_current_stats" \in activity_callbacks
       THEN /\ Goto(thread, "get_current_stats")
            /\ UNCHANGED activity_lock
       ELSE /\ Goto(thread, AfterCallbacks(thread))
            /\ activity_lock' = ""
    /\ last' = NoLast
    /\ UNCHANGED <<now, sessvars, pend, calls, script, flagvars, bufvars, monitor_thread,
                   intensity_thread, idle_state, mon_last_activity_time,
                   activity_callbacks, client, idle_calls, mon_calls, inputs>>

\* get_current_stats called by a callback: it waits for activity_lock, reads
\* the stats under it and releases it; the callback then returns to the
\* thread that called it. A thread that holds activity_lock itself (the
\* callback was called by _record_activity_event) never gets past the wait.
GetCurrentStats(thread) ==
    /\ PcOf(thread) = "get_current_stats"
    /\ activity_lock = ""
    /\ Commit(IF is_monitoring /\ current_session_id # None
              THEN _calculate_current_stats(World)
              ELSE [w |-> World, ret |-> NoRet])
    /\ Goto(thread, AfterCallbacks(thread))
    /\ calls' = calls + 1
    /\ last' = NoLast
    /\ UNCHANGED <<now, pend, script, flagvars, bufvars, monitor_thread,
                   intensity_thread, idle_state, mon_last_activity_time, activity_lock,
                   activity_callbacks, client, idle_calls, mon_calls, inputs>>

\* One pass of _intensity_calculation_loop: it ends when shutdown_event is
\* set, and else calls the activity callbacks, holding no lock
IntensityCalculation(l) ==
    /\ intensity_loops[l] = "run"
    /\ intensity_loops' =
           IF shutdown_event THEN [intensity_loops EXCEPT ![l] = "done"]
           ELSE IF "get_current_stats" \in activity_callbacks /\ calls < MaxStatsCalls
           THEN [intensity_loops EXCEPT ![l] = "get_current_stats"]
           ELSE intensity_loops
    /\ last' = NoLast
    /\ UNCHANGED <<now, sessvars, pend, calls, script, flagvars, bufvars, monitor_thread,
                   intensity_thread, loops, idle_state, mon_last_activity_time,
                   activity_lock, activity_callbacks, client, listener, idle_calls,
                   mon_calls, inputs>>

MonitorThreads == LoopIds \cup IntensityIds \cup {Listener}

MonitorNext ==
    \/ MonTock
    \/ StartSessionRequest
    \/ StartMonitoring
    \/ PauseMonitoring
    \/ ResumeMonitoring
    \/ AddActivityCallback
    \/ StopMonitoringCall
    \/ StopMonitoring
    \/ JoinMonitorThread
    \/ JoinIntensityThread
    \/ StopMonitoringEnd
    \/ InputArrives
    \/ OnInputActivity
    \/ InputRecord
    \/ \E l \in LoopIds : IdleDetection(l)
    \/ \E l \in LoopIds : IdleRecord(l)
    \/ \E l \in LoopIds : IdleNotify(l)
    \/ \E thread \in MonitorThreads : ActivityCallbacksRun(thread)
    \/ \E thread \in MonitorThreads : GetCurrentStats(thread)
    \/ \E l \in IntensityIds : IntensityCalculation(l)

SpecMonitor == MonitorInit /\ [][MonitorNext]_vars

\* ------------------------------------------------------ keyboard intensity
\* Intensities are held in thousandths. keys is keypress_times, t the clock
\* reading the function takes.
_calculate_keyboard_intensity(keys, t) ==
    IF Len(keys) < 2 THEN 100
    ELSE LET recent_keypresses == SelectSeq(keys, LAMBDA k : t - k <= 5 * Tick) IN
         IF recent_keypresses = <<>> THEN 100
         ELSE LET time_span == recent_keypresses[Len(recent_keypresses)] - recent_keypresses[1] IN
              IF time_span <= 0 THEN 100
              ELSE LET intensity == Min((Len(recent_keypresses) * Tick * 100) \div time_span,
                                        1000)
                   IN  IF intensity >= 100 THEN intensity ELSE 100

\* A key press while the sampler monitors: on_key_press, _on_keyboard_activity
\* and _record_activity_event, run by the listener thread with no other
\* thread in between
KeyPress ==
    /\ listening
    /\ is_monitoring /\ ~is_paused
    /\ activity_lock = ""
    /\ inputs < MaxKeys
    /\ inputs' = inputs + 1
    /\ mon_last_activity_time' = now
    /\ keypress_times' = DequeAppend(keypress_times, now, 10)
    /\ LET event == ActivityEvent(now, KEYBOARD, FALSE) IN
        /\ Commit(_record_activity_event(World, event, "none"))
        /\ activity_history' = DequeAppend(activity_history, event, 1000)
    /\ last' = NoLast
    /\ UNCHANGED <<now, pend, calls, script, flagvars, mouse_positions, threadvars,
                   idle_state, activity_lock, activity_callbacks, client, listener,
                   idle_calls, mon_calls>>

\* The intensity thread computes the keyboard intensity (through
\* _calculate_overall_intensity)
CalculateKeyboardIntensity ==
    /\ intensity_thread # ""
    /\ last' = [thread |-> intensity_thread, op |-> "_calculate_keyboard_intensity",
                fault |-> "none",
                ret |-> [NoRet EXCEPT !.kind = "ok",
                                      !.intensity = _calculate_keyboard_intensity(keypress_times, now)]]
    /\ UNCHANGED <<now, sessvars, pend, calls, script, monvars>>

IntensityNext ==
    \/ StartSessionRequest
    \/ MonTock
    \/ KeyPress
    \/ CalculateKeyboardIntensity

SpecIntensity == MonitorInit /\ [][IntensityNext]_vars

\* ------------------------------------------------------------- properties
\* Thread t's pending call of operation op finishes in this step
Finishes(t, op) == pend[t].op = op /\ pend'[t] = NoCall

LegalTransitions ==
    {<<IDLE, ACTIVE, "Session started">>,
     <<ACTIVE, PAUSED, "manual_pause">>,
     <<PAUSED, ACTIVE, "Session resumed">>,
     <<ACTIVE, COMPLETED, "Session completed">>,
     <<PAUSED, COMPLETED, "Session completed">>}

\* C1: every (from_state, to_state) pair that _transition_state records, in
\* state_history and in the state_changed notifications, is idle->active by
\* start_session, active->paused by pause_session, paused->active by
\* resume_session, or active->completed / paused->completed by stop_session.
C1_OnlyLegalTransitions ==
    /\ observed \subseteq LegalTransitions
    /\ \A i \in 1..Len(state_history) :
        <<state_history[i].from_state, state_history[i].to_state,
          state_history[i].reason>> \in LegalTransitions

\* A session has been paused, resumed and completed
C1_Witness ==
    /\ <<ACTIVE, PAUSED, "manual_pause">> \in observed
    /\ <<PAUSED, ACTIVE, "Session resumed">> \in observed
    /\ <<ACTIVE, COMPLETED, "Session completed">> \in observed

IllegalFor(op, state) ==
    \/ op = "pause_session" /\ state # ACTIVE
    \/ op = "resume_session" /\ state # PAUSED
    \/ op = "stop_session" /\ state \notin {ACTIVE, PAUSED}

\* C2: pause_session when not ACTIVE, resume_session when not PAUSED and
\* stop_session when neither ACTIVE nor PAUSED raise to the caller and leave
\* session_state, current_session, the accumulators, idle_start_time,
\* last_activity_time and state_history as they were; this holds of every
\* such call, so of a repeated one too.
C2_IllegalCallRejected ==
    [][\A t \in Callers, op \in {"pause_session", "resume_session", "stop_session"} :
          (Finishes(t, op) /\ IllegalFor(op, session_state))
              => /\ last'.ret.kind = "ValueError"
                 /\ UNCHANGED mgrvars]_vars

\* resume_session was rejected while a session with time on its accumulators is ACTIVE
C2_Witness ==
    /\ last.op = "resume_session"
    /\ last.ret.kind = "ValueError"
    /\ session_state = ACTIVE
    /\ total_active_time > 0

\* C3: start_session while a session exists (ACTIVE or PAUSED) raises and
\* leaves the session, its accumulators, its history and the database as they
\* were; a start_session that succeeds runs from IDLE, makes one
\* create_session call and one idle->active transition, and leaves every other
\* waiting start_session to be rejected: of two concurrent calls from IDLE one
\* creates the session and the other is refused.
C3_StartExclusive ==
    [][\A t \in Callers :
          Finishes(t, "start_session") =>
              IF session_state # IDLE
              THEN /\ last'.ret.kind = "ValueError"
                   /\ UNCHANGED <<mgrvars, db_sessions, db_record, observed>>
              ELSE last'.ret.kind = "ok" =>
                   /\ db_sessions' = db_sessions + 1
                   /\ current_session' = db_sessions'
                   /\ session_state' = ACTIVE
                   /\ Len(state_history') = 1
                   /\ state_history'[1].from_state = IDLE
                   /\ state_history'[1].to_state = ACTIVE
                   /\ \A u \in Callers \ {t} :
                        pend[u].op = "start_session" =>
                            start_session(World, now, "none")'.ret.kind = "ValueError"]_vars

\* Two threads called start_session while IDLE (the only two calls so far, the
\* second made while the first waited); one created the session, the other
\* has just been rejected
C3_Witness ==
    /\ calls = 2
    /\ last.thread = "c2"
    /\ last.op = "start_session"
    /\ last.ret.kind = "ValueError"
    /\ session_state = ACTIVE
    /\ db_sessions = 1
    /\ Len(state_history) = 1

CleanIdle ==
    /\ session_state = IDLE
    /\ current_session = None
    /\ session_start_time = None
    /\ last_activity_time = None
    /\ idle_start_time = None
    /\ total_active_time = 0
    /\ total_idle_time = 0
    /\ state_history = <<>>

\* C4: when create_session raises, or log_activity_event raises after the
\* idle->active transition was recorded, start_session raises to its caller
\* and leaves the manager IDLE with no session, no clock readings, zero
\* accumulators and an empty state_history.
C4_FailedStartLeavesIdle ==
    [][\A t \in Callers :
          (Finishes(t, "start_session") /\ session_state = IDLE /\ last'.fault # "none")
              => /\ last'.ret.kind = "DbError"
                 /\ CleanIdle']_vars

\* start_session failed in log_activity_event, after the transition was notified
C4_Witness ==
    /\ last.op = "start_session"
    /\ last.fault = "log_activity_event"
    /\ last.ret.kind = "DbError"
    /\ <<IDLE, ACTIVE, "Session started">> \in observed
    /\ db_sessions = 1

\* C5: a pause_session, resume_session or stop_session that fails part-way
\* (log_activity_event raises after the transition was made) leaves
\* session_state, current_session, the accumulators, idle_start_time,
\* last_activity_time and state_history as they were before the call.
C5_FailedOperationRollsBack ==
    [][\A t \in Callers, op \in {"pause_session", "resume_session", "stop_session"} :
          (Finishes(t, op) /\ last'.ret.kind = "DbError") => UNCHANGED mgrvars]_vars

\* C6: when a durable write fails during a legal stop_session (update_session
\* fails, or log_activity_event for session_completed raises), stop_session
\* still returns the session summary to its caller.
C6_StopReturnsSummaryOnWriteFailure ==
    (/\ last.op = "stop_session"
     /\ last.ret.kind # "ValueError"
     /\ last.fault \in {"update_session", "log_activity_event"})
        => /\ last.ret.kind = "ok"
           /\ last.ret.has_stats
           /\ last.ret.session_id # None
           /\ last.ret.level # ""

\* Productivities are held in tenths of a percent
InPercentRange(p) == 0 <= p /\ p <= 1000

\* C7: every productivity the manager reports (get_current_status, the stats
\* of pause_session and resume_session, the stop_session summary and the
\* persisted record) is in [0, 100], and stop_session reports exactly 0 when
\* total_active_time + total_idle_time is 0 after its reconciliation.
C7_ProductivityInRange ==
    [][/\ last'.ret.has_stats => InPercentRange(last'.ret.productivity)
       /\ db_record'.written => InPercentRange(db_record'.productivity)
       /\ \A t \in Callers :
            (/\ Finishes(t, "stop_session")
             /\ last'.ret.kind = "ok"
             /\ LET w1 == _update_time_tracking(World, now)
                IN  w1.total_active_time + w1.total_idle_time = 0)
                => last'.ret.productivity = 0]_vars

Abs(x) == IF x < 0 THEN -x ELSE x

\* C8: at a stop_session whose record is written, total_active_time +
\* total_idle_time (persisted as total_seconds, an int() of it) equals the
\* time elapsed since the session started, up to one second per
\* reconciliation step performed in the session (and the second int() may drop).
C8_TotalMatchesWallClock ==
    [][\A t \in Callers :
          (Finishes(t, "stop_session") /\ last'.ret.kind = "ok" /\ last'.fault = "none")
              => Abs(db_record'.total_seconds * Tick - (now - session_start_time))
                     <= recon_steps' * Tick + Tick]_vars

\* C9: while one session lives, total_active_time and total_idle_time are
\* non-negative and no step decreases either, under every interleaving of the
\* operations and of sampler notifications stamped before they are delivered.
C9_AccumulatorsMonotone ==
    [][(current_session # None /\ current_session' = current_session)
          => /\ total_active_time' >= total_active_time
             /\ total_idle_time' >= total_idle_time
             /\ total_active_time' >= 0
             /\ total_idle_time' >= 0]_vars

\* C10: in the scenario start, 2 s of activity, pause, 3 s, resume, 2 s of
\* activity, stop(success=True), the session ends with about 4 active seconds
\* and about 3 idle seconds (within a second), a productivity of about 57.1
\* (within 5 points), and the recorded path idle->active->paused->active->completed.
C10_ScenarioResult ==
    script = 5 =>
        /\ last.ret.kind = "ok"
        /\ db_record.written
        /\ db_record.active_seconds \in 3..4
        /\ db_record.idle_seconds \in 2..3
        /\ Abs(db_record.productivity - 571) <= 50
        /\ Len(get_session(db_record).state_history) = 3
        /\ get_session(db_record).state_history[1].to_state = ACTIVE
        /\ get_session(db_record).state_history[2].to_state = PAUSED
        /\ get_session(db_record).state_history[3].to_state = ACTIVE
        /\ <<ACTIVE, COMPLETED, "Session completed">> \in observed

\* C13: when session_state is not ACTIVE (IDLE, PAUSED, or no current session),
\* update_session_activity and update_session_idle_state change nothing of the
\* manager (state, accumulators, idle_start_time, last_activity_time,
\* state_history) and make no persistence call: the database is as it was and
\* a failing log_activity_event cannot make the call fail.
C13_InactiveNotificationIgnored ==
    [][\A op \in {"update_session_activity", "update_session_idle_state"} :
          (Finishes(Sampler, op) /\ (session_state # ACTIVE \/ current_session = None))
              => /\ UNCHANGED <<mgrvars, db_sessions, db_record, observed, recon_steps>>
                 /\ last'.ret.kind = "ok"]_vars

\* An activity notification was delivered while PAUSED, at a time when
\* log_activity_event fails, and returned normally
C13_Witness ==
    /\ last.thread = Sampler
    /\ last.op = "update_session_activity"
    /\ last.fault = "log_activity_event"
    /\ last.ret.kind = "ok"
    /\ session_state = PAUSED

\* C14: while ACTIVE, update_session_idle_state(True, t) opens an idle span at
\* t when none is open and leaves an open span's start alone;
\* update_session_idle_state(False, t) with a span open adds t minus the
\* span's start to total_idle_time, clears the span and sets
\* last_activity_time to t, and with no span open leaves total_idle_time
\* alone. Neither changes total_active_time or session_state.
C14_IdleStateWhileActive ==
    [][(Finishes(Sampler, "update_session_idle_state") /\ session_state = ACTIVE) =>
          LET is_idle == pend[Sampler].is_idle
              t == pend[Sampler].ts
          IN  /\ (is_idle /\ idle_start_time = None) => idle_start_time' = t
              /\ (is_idle /\ idle_start_time # None) => idle_start_time' = idle_start_time
              /\ (~is_idle /\ idle_start_time # None) =>
                    /\ total_idle_time' = total_idle_time + (t - idle_start_time)
                    /\ idle_start_time' = None
                    /\ last_activity_time' = t
              /\ (~is_idle /\ idle_start_time = None) => total_idle_time' = total_idle_time
              /\ total_active_time' = total_active_time
              /\ session_state' = session_state]_vars

\* The third call of a session that was never paused was
\* update_session_idle_state(False, t), and it closed a span with time on it
C14_Witness ==
    /\ last.op = "update_session_idle_state"
    /\ calls = 3
    /\ session_state = ACTIVE
    /\ Len(state_history) = 1
    /\ idle_start_time = None
    /\ total_idle_time > 0
    /\ last_activity_time = now

\* C15: for a pause_session at t1 followed by a resume_session at t2,
\* total_idle_time after the resume is total_idle_time just after the pause
\* plus t2 - t1, whatever get_current_status calls were made while PAUSED.
\* The pause transition is the last record of state_history while PAUSED.
C15_PausedSpanCountedOnce ==
    [][\A t \in Callers :
          (Finishes(t, "resume_session") /\ session_state = PAUSED /\ session_state' = ACTIVE)
              => total_idle_time' =
                     idle_at_pause + (now - state_history[Len(state_history)].timestamp)]_vars

\* Whether the operation validate_session_operation names is refused in the
\* current state
RejectedAsIllegal(operation) ==
    CASE operation = "start" -> start_session(World, now, "none").ret.kind = "ValueError"
      [] operation = "pause" ->
            pause_session(World, now, "manual_pause", "none").ret.kind = "ValueError"
      [] operation = "resume" -> resume_session(World, now, "none").ret.kind = "ValueError"
      [] operation = "stop" -> stop_session(World, now, TRUE, "none").ret.kind = "ValueError"

\* C16: in every state and for every operation of start, pause, resume and
\* stop, validate_session_operation returns valid = false when the operation
\* would be rejected as illegal in that state, such as start while ACTIVE or
\* PAUSED (the helper only reads: it has no effect on the manager).
C16_ValidationAgreesWithStateMachine ==
    \A operation \in {"start", "pause", "resume", "stop"} :
        RejectedAsIllegal(operation) =>
            ~validate_session_operation(World, operation, TRUE).valid

\* C11: while monitoring, each flip of idle_state the idle-detection loop
\* detects gives one Idle event and one update_session_idle_state call with
\* the flip's value: the thread that has recorded the event goes on to make
\* the call, and the Idle events of the history alternate between
\* idle_state = true and false (none is repeated while idleness lasts).
C11_IdleFlipNotifiedOnce ==
    [][/\ \A l \in LoopIds :
            (loops[l].pc = "record" /\ loops'[l].pc # "record")
                => loops'[l].pc \in {"callbacks", "notify"}
       /\ LET idle_events == SelectSeq(activity_history',
                                       LAMBDA e : e.activity_type = IDLE_EVENT)
          IN  \A i \in 1..(Len(idle_events) - 1) :
                  idle_events[i].idle_state # idle_events[i + 1].idle_state]_vars

\* C12: the update_session_idle_state calls the session manager receives from
\* one ActivityMonitor alternate strictly between is_idle = True and False and
\* carry non-decreasing timestamps, whatever start_monitoring,
\* pause_monitoring, resume_monitoring and stop_monitoring calls are made,
\* a start_monitoring after a stop_monitoring included.
C12_IdleCallsAlternate ==
    \A i \in 1..(Len(idle_calls) - 1) :
        /\ idle_calls[i][1] # idle_calls[i + 1][1]
        /\ idle_calls[i][2] <= idle_calls[i + 1][2]

\* C17: when input capture is unavailable (permissions_ok is false, or no
\* listener started), a start_monitoring call leaves the monitor running
\* with its idle-detection thread and its intensity thread alive.
C17_FallbackLaunchesLoops ==
    (last.op = "start_monitoring" /\ (~permissions_ok \/ ~listening))
        => /\ is_monitoring
           /\ monitor_thread # "" /\ is_alive(loops[monitor_thread].pc)
           /\ intensity_thread # "" /\ is_alive(intensity_loops[intensity_thread])

\* C18: stop_monitoring always returns, and leaves is_monitoring false: when
\* it has returned is_monitoring is false, and while it waits for
\* activity_lock the thread that holds the lock can take its next step (the
\* wait comes to an end).
C18_StopMonitoringReturns ==
    /\ last.op = "stop_monitoring" => ~is_monitoring
    /\ \A thread \in MonitorThreads :
          (client.op = "stop_monitoring" /\ client.pc = "lock" /\ activity_lock = thread)
              => ENABLED (ActivityCallbacksRun(thread) \/ GetCurrentStats(thread))

\* C19: while the sampler is paused (pause_monitoring has returned and
\* resume_monitoring has not made it run again), no step changes
\* last_activity_time, keypress_times, mouse_positions or activity_history,
\* and the idle-detection loop neither flips idle_state nor notifies the
\* session manager, however input callbacks interleave with pause_monitoring.
C19_PausedIgnoresInput ==
    [][(is_monitoring /\ is_paused /\ is_paused')
          => /\ UNCHANGED <<mon_last_activity_time, keypress_times, mouse_positions,
                            activity_history>>
             /\ UNCHANGED <<idle_state, idle_calls>>]_vars

\* C20: no thread holds activity_lock while the activity callbacks it called
\* run, so that a callback which calls get_current_stats never waits for a
\* lock its own thread holds.
C20_NoLockHeldInCallbacks ==
    \A thread \in MonitorThreads :
        PcOf(thread) \in {"callbacks", "get_current_stats"} => activity_lock # thread

C22_StopThenFreshStart ==
    [][\A t \in Callers :
          /\ (Finishes(t, "stop_session") /\ session_state \in {ACTIVE, PAUSED})
                => /\ session_state' = IDLE
                   /\ current_session' = None
          /\ (/\ Finishes(t, "start_session")
              /\ db_sessions >= 1
              /\ session_state = IDLE
              /\ last'.fault = "none")
                => /\ last'.ret.kind = "ok"
                   /\ session_state' = ACTIVE
                   /\ current_session' # None
                   /\ total_active_time' = 0
                   /\ total_idle_time' = 0
                   /\ idle_start_time' = None
                   /\ Len(state_history') = 1
                   /\ state_history'[1].from_state = IDLE
                   /\ state_history'[1].to_state = ACTIVE
                   /\ state_history'[1].session_time = 0]_vars

\* A second session has just started after the first, which had active time
\* on its accumulators, was stopped and persisted
C22_Witness ==
    /\ last.op = "start_session"
    /\ last.ret.kind = "ok"
    /\ db_sessions = 2
    /\ db_record.written
    /\ db_record.active_seconds > 0
    /\ Len(state_history) = 1

\* The buffer holds 10 keypresses, all within 1 second of each other and
\* within the last 5 seconds before t
Burst(keys, t) ==
    /\ Len(keys) = 10
    /\ \A i \in 1..Len(keys) : keys[i] <= t /\ t - keys[i] <= 5 * Tick
    /\ \A i, j \in 1..Len(keys) : keys[i] - keys[j] <= Tick

\* C23: _calculate_keyboard_intensity returns a value in [0.1, 1.0], and
\* returns 1.0 when keypress_times holds a burst of 10 keypresses that all lie
\* within 1 second and within the last 5 seconds, keypresses with equal
\* timestamps included.
C23_KeyboardIntensity ==
    last.op = "_calculate_keyboard_intensity"
        => /\ 100 <= last.ret.intensity /\ last.ret.intensity <= 1000
           /\ Burst(keypress_times, now) => last.ret.intensity = 1000

\* C24: an idle span that is open while the session is ACTIVE is not lost:
\* a pause_session made then leaves total_idle_time larger by at least the
\* span's duration up to the call, and a stop_session made then persists an
\* idle_seconds that includes it.
C24_OpenIdleSpanFlushed ==
    [][\A t \in Callers :
          /\ (/\ Finishes(t, "pause_session")
              /\ session_state = ACTIVE
              /\ Truthy(idle_start_time))
                => total_idle_time' >= total_idle_time + (now - idle_start_time)
          /\ (/\ Finishes(t, "stop_session")
              /\ session_state = ACTIVE
              /\ Truthy(idle_start_time)
              /\ last'.fault = "none")
                => db_record'.idle_seconds
                       >= IntTrunc(total_idle_time + (now - idle_start_time))]_vars

\* C25: the state_history a stop_session persists, read back by get_session,
\* is the ordered list of transitions the manager recorded for the session,
\* the final transition to completed included, with the same from_state,
\* to_state, reason and session_time in each entry.
C25_HistoryRoundTrip ==
    [][\A t \in Callers :
          (/\ Finishes(t, "stop_session")
           /\ session_state \in {ACTIVE, PAUSED}
           /\ last'.fault = "none")
              => LET loaded == get_session(db_record').state_history
                     recorded == _transition_state(_update_time_tracking(World, now), COMPLETED,
                                                   "Session completed", now).state_history
                 IN  /\ Len(loaded) = Len(recorded)
                     /\ \A i \in 1..Len(recorded) :
                          /\ loaded[i].from_state = recorded[i].from_state
                          /\ loaded[i].to_state = recorded[i].to_state
                          /\ loaded[i].reason = recorded[i].reason
                          /\ loaded[i].session_time = recorded[i].session_time]_vars

\* C26: one reconciliation step while ACTIVE (the one get_current_status
\* runs) adds at most 1 second to total_active_time: min(now -
\* last_activity_time, 1 s) when that gap is below idle_threshold, and nothing
\* when the gap is at least idle_threshold; it then opens an idle span at
\* last_activity_time + idle_threshold when none is open and leaves an open
\* one as it is.
C26_ReconciliationStep ==
    [][\A t \in Callers :
          (Finishes(t, "get_current_status") /\ session_state = ACTIVE)
              => LET gap == now - last_activity_time IN
                 /\ total_active_time' - total_active_time <= 1 * Tick
                 /\ IF gap < idle_threshold
                    THEN total_active_time' = total_active_time + Min(gap, 1 * Tick)
                    ELSE /\ total_active_time' = total_active_time
                         /\ total_idle_time' = total_idle_time
                         /\ idle_start_time' = IF idle_start_time = None
                                               THEN last_activity_time + idle_threshold
                                               ELSE idle_start_time]_vars

\* A get_current_status has just opened an idle span at last_activity_time +
\* idle_threshold, in a session whose earlier reconciliation added 1 second of
\* active time
C26_Witness ==
    /\ last.op = "get_current_status"
    /\ session_state = ACTIVE
    /\ total_active_time = 1 * Tick
    /\ idle_start_time = last_activity_time + idle_threshold
    /\ recon_steps >= 2

\* C27: while a session lives, total_active_time is at most the time elapsed
\* since session_start_time, whatever calls were made and when; and a
\* get_current_status made at the instant of the call before it, itself a
\* get_current_status, leaves total_active_time (and so the active_seconds it
\* reports) as that call left it.
C27_ActiveWithinWallClock ==
    [][/\ current_session' # None
            => total_active_time' <= now' - session_start_time'
       /\ \A t \in Callers :
            (Finishes(t, "get_current_status") /\ last.op = "get_current_status")
                => total_active_time' = total_active_time]_vars

\* C28: a get_current_status, pause_session or stop_session that comes right
\* after an update_session_idle_state(True, t) notification was taken while
\* ACTIVE (an idle span is open, and no activity or idle=False notification
\* has followed) does not increase total_active_time, nor count active time
\* into the record it persists.
C28_NoActiveTimeWhileIdle ==
    [][\A t \in Callers :
          (/\ last.op = "update_session_idle_state"
           /\ session_state = ACTIVE
           /\ Truthy(idle_start_time)
           /\ \/ Finishes(t, "get_current_status")
              \/ Finishes(t, "pause_session")
              \/ Finishes(t, "stop_session"))
              => /\ current_session' # None => total_active_time' <= total_active_time
                 /\ (current_session' = None /\ last'.fault = "none")
                        => db_record'.active_seconds <= IntTrunc(total_active_time)]_vars

\* C29: whenever no handler holds state_lock, session_state is IDLE exactly
\* when current_session is None, and is otherwise ACTIVE or PAUSED with
\* session_start_time and last_activity_time set; COMPLETED, and a non-IDLE
\* state with no current session, are never left behind by a handler.
C29_LockFreeStateConsistent ==
    /\ session_state \in {IDLE, ACTIVE, PAUSED}
    /\ (session_state = IDLE) <=> (current_session = None)
    /\ session_state # IDLE
          => /\ session_start_time # None
             /\ last_activity_time # None

\* A stop_session has passed through COMPLETED, failed in its last write and
\* raised; the manager is IDLE with no session
C29_Witness ==
    /\ last.op = "stop_session"
    /\ last.ret.kind = "DbError"
    /\ <<ACTIVE, COMPLETED, "Session completed">> \in observed
    /\ session_state = IDLE
    /\ current_session = None

\* C30: at most one idle-detection thread and at most one intensity thread
\* of the monitor are alive at any time: a thread started by an earlier
\* start_monitoring has ended before the threads of the next one run.
C30_OneLoopOfEachKind ==
    /\ Cardinality({l \in LoopIds : is_alive(loops[l].pc)}) <= 1
    /\ Cardinality({l \in IntensityIds : is_alive(intensity_loops[l])}) <= 1

====
